---------------------------- MODULE Spec2Model ----------------------------
(***************************************************************************)
(* A model of cryptodatapy's CryptoCompare client: the translation of a    *)
(* data request into vendor parameters, the paginated walk-back with its   *)
(* retry loop (fetch_ohlcv, fetch_onchain), the normalisation of the       *)
(* accumulated pages (wrangle_ohlcv_resp, wrangle_onchain_resp) and the     *)
(* router that merges the two data kinds (fetch_data).                     *)
(*                                                                         *)
(* One step of the model is one HTTP exchange with the vendor together     *)
(* with everything the code does up to the next exchange.  The vendor's    *)
(* answer is the step's input.                                             *)
(***************************************************************************)
EXTENDS Integers, Sequences, FiniteSets, TLC

(***************************************************************************)
(* Bounds of the model.                                                    *)
(***************************************************************************)
\* max_obs_per_call as configured on the client (a constructor argument;
\* the vendor answers a request of limit n with up to n + 1 rows).
MaxObsPerCall == 1
\* The vendor's history of a symbol reaches at most MaxBack observations
\* before the end of the request.
MaxBack == 1
\* The largest retry_count a request carries.
MaxTrials == 4
\* The day "now" falls on, the seconds in a day and the datetime ticks in a
\* second, scaled down.
NowDay == 10
DaySecs == 2
TicksPerSec == 2

(***************************************************************************)
(* Values.                                                                 *)
(***************************************************************************)
None == "None"
\* None where a date may stand.
NoDate == -9
\* A cell that holds not-a-number, and a column that a page does not carry.
NaN == -1
Missing == -2
\* A price that is an observation.
Price == 1
\* The index level of a table keyed by timestamp alone.
NoTicker == "-"

Upper(s) ==
    CASE s = "btc" -> "BTC"
      [] s = "eth" -> "ETH"
      [] OTHER -> s

TickerRank(s) ==
    CASE s = NoTicker -> 0
      [] s = "BTC" -> 1
      [] s = "ETH" -> 2
      [] OTHER -> 3

OhlcvFields == <<"open", "high", "low", "close", "volume">>
\* The vendor's on-chain metrics past the four housekeeping keys.
OnchainFields == <<"active_addresses">>

Range(s) == {s[i] : i \in DOMAIN s}


(***************************************************************************)
(* Time.  A calendar date is a day number; the vendor counts seconds since *)
(* the epoch; pandas holds a timestamp as ticks since the epoch.           *)
(***************************************************************************)
\* '2010-01-01', the start of a request that names none.
Date2010 == 0
\* timedelta(days=7)
ClampDays == 7

\* util.convertparams.convert_datetime_to_unix_tmsp: a date as epoch seconds.
convert_datetime_to_unix_tmsp(d) == d * DaySecs
\* datetime.now() and datetime.utcnow(), as epoch seconds.
NowTs == NowDay * DaySecs
\* pd.to_datetime(df['time'], unit='s')
to_datetime(secs) == secs * TicksPerSec
\* The timestamp pandas compares a request's date with.
Timestamp(d) == d * DaySecs * TicksPerSec

(***************************************************************************)
(* DataRequest: the frequency tokens its setter accepts.                   *)
(***************************************************************************)
FreqTokens ==
    {"tick", "1min", "5min", "10min", "20min", "30min",
     "1h", "2h", "4h", "8h", "d", "w", "m"}

\* freq[-3:]
Last3(f) ==
    CASE f \in {"1min", "5min", "10min", "20min", "30min"} -> "min"
      [] f = "tick" -> "ick"
      [] OTHER -> f
\* freq[-1]
Last1(f) ==
    CASE f \in {"1min", "5min", "10min", "20min", "30min"} -> "n"
      [] f \in {"1h", "2h", "4h", "8h"} -> "h"
      [] f = "tick" -> "k"
      [] OTHER -> f

(***************************************************************************)
(* convert_data_req_params                                                 *)
(***************************************************************************)
ConvertTickers(tickers) == [i \in DOMAIN tickers |-> Upper(tickers[i])]

\* A translation without the final else: no keyword for w, m and tick.
ConvertFreqNoDefault(freq) ==
    IF Last3(freq) = "min" THEN "histominute"
    ELSE IF Last1(freq) = "h" THEN "histohour"
    ELSE IF freq = "d" THEN "histoday"
    ELSE None

ConvertFreq(freq) ==
    IF Last3(freq) = "min" THEN "histominute"
    ELSE IF Last1(freq) = "h" THEN "histohour"
    ELSE IF freq = "d" THEN "histoday"
    ELSE "histoday"

\* The start date: the assignment of the minute branch is followed by the
\* if/else on data_req.start_date, which assigns again in either branch.
ConvertStartDate(req) ==
    LET minute == IF Last3(req.freq) = "min"
                  THEN NowTs - ClampDays * DaySecs
                  ELSE NoDate
    IN  IF req.start_date = NoDate
        THEN convert_datetime_to_unix_tmsp(Date2010)
        ELSE convert_datetime_to_unix_tmsp(req.start_date)

ConvertEndDate(req) ==
    IF req.end_date = NoDate
    THEN NowTs
    ELSE convert_datetime_to_unix_tmsp(req.end_date)

convert_data_req_params(req) ==
    [tickers    |-> ConvertTickers(req.tickers),
     frequency  |-> ConvertFreq(req.freq),
     start_date |-> ConvertStartDate(req),
     end_date   |-> ConvertEndDate(req),
     fields     |-> req.fields,
     trials     |-> req.trials]

(***************************************************************************)
(* Tables.  A raw row is [time, close] (a price bar) or [time, symbol,     *)
(* value] (an on-chain observation); a normalised row carries its          *)
(* timestamp as date and, in a table keyed by (date, ticker), its ticker.  *)
(***************************************************************************)
\* The order of an index: by date, and by ticker within a date.
KeyBefore(a, b) ==
    \/ a.date < b.date
    \/ a.date = b.date /\ TickerRank(a.ticker) < TickerRank(b.ticker)

RECURSIVE InsertSorted(_, _)
\* Row r put into the sorted table s behind every row that is not after it.
InsertSorted(r, s) ==
    IF s = <<>> THEN <<r>>
    ELSE IF KeyBefore(r, Head(s)) THEN <<r>> \o s
    ELSE <<Head(s)>> \o InsertSorted(r, Tail(s))

RECURSIVE sort_index(_)
\* df.sort_index(): rows with the same index value keep their order.
sort_index(df) ==
    IF df = <<>> THEN <<>>
    ELSE InsertSorted(df[Len(df)], sort_index(SubSeq(df, 1, Len(df) - 1)))

\* The table with its duplicated index values left in.
DropDuplicatedOff(df) == df

\* df[~df.index.duplicated()]: the first row of every index value.
DropDuplicated(df) ==
    LET keep == {i \in DOMAIN df : \A j \in 1..(i - 1) : df[j].date /= df[i].date}
        F[i \in 0..Len(df)] ==
            IF i = 0 THEN <<>>
            ELSE IF i \in keep THEN Append(F[i - 1], df[i]) ELSE F[i - 1]
    IN  F[Len(df)]

\* df[pred]: the rows of df in keep, in their order.
RECURSIVE FilterRows(_, _)
FilterRows(df, keep) ==
    IF df = <<>> THEN <<>>
    ELSE IF Head(df) \in keep THEN <<Head(df)>> \o FilterRows(Tail(df), keep)
    ELSE FilterRows(Tail(df), keep)

(***************************************************************************)
(* wrangle_ohlcv_resp                                                      *)
(***************************************************************************)
\* df.loc[:, ['open', 'high', 'low', 'close', 'volume']] raises KeyError
\* when no accumulated page carries the column.
WrangleOhlcvRaises(data_resp) ==
    \A i \in DOMAIN data_resp : data_resp[i].close = Missing

\* A column that only some of the concatenated pages carry holds NaN in the
\* rows of the others.
CloseCell(row) == IF row.close = Missing THEN NaN ELSE row.close

\* The table with the rows before the start left in.
FilterStartOff(req, df) == df

\* df[(df.index >= data_req.start_date)], df[(df.index <= data_req.end_date)]
FilterStart(req, df) ==
    IF req.start_date /= NoDate
    THEN FilterRows(df, {r \in Range(df) : r.date >= Timestamp(req.start_date)})
    ELSE df
FilterEnd(req, df) ==
    IF req.end_date /= NoDate
    THEN FilterRows(df, {r \in Range(df) : r.date <= Timestamp(req.end_date)})
    ELSE df

\* The table with the rows of a zero or NaN close left in.
DropSentinelOff(df) == df

\* df[df['close'] != 0].dropna()
DropSentinel(df) ==
    FilterRows(df, {r \in Range(df) : r.close /= 0 /\ r.close /= NaN})

wrangle_ohlcv_resp(req, data_resp) ==
    LET dated  == [i \in DOMAIN data_resp |->
                      [date   |-> to_datetime(data_resp[i].time),
                       ticker |-> NoTicker,
                       close  |-> CloseCell(data_resp[i])]]
        sorted == sort_index(dated)
        unique == DropDuplicated(sorted)
        valid  == DropSentinel(unique)
    IN  FilterEnd(req, FilterStart(req, valid))

(***************************************************************************)
(* wrangle_onchain_resp                                                    *)
(***************************************************************************)
\* The pages of one symbol carry that symbol in every row, so the order by
\* date alone is the order of the index.  No sentinel filter here.
wrangle_onchain_resp(req, data_resp) ==
    LET dated  == [i \in DOMAIN data_resp |->
                      [date   |-> to_datetime(data_resp[i].time),
                       ticker |-> data_resp[i].symbol,
                       value  |-> data_resp[i].value]]
        unique == DropDuplicated(sort_index(dated))
    IN  sort_index(FilterEnd(req, FilterStart(req, unique)))

(***************************************************************************)
(* The vendor.  A page request names a symbol and an end time (toTs); the  *)
(* answer is a transport error ("transport"), a body without the expected  *)
(* keys ("badresp"), a non-Success status with the vendor's Message        *)
(* ("fail"), or a Success page ("page"; "badrows" when its rows carry no   *)
(* close column).                                                          *)
(***************************************************************************)
\* The distance in seconds between two observations of an endpoint.
Interval(frequency) == IF frequency = "histoday" THEN DaySecs ELSE 1

\* The earliest observation the vendor holds.
HistoryFloor(params) ==
    LET f == params.end_date - MaxBack * Interval(params.frequency)
    IN  IF f < 0 THEN 0 ELSE f

\* How many observations the vendor can put on a page that ends at toTs.
Available(params, toTs) ==
    LET g == Interval(params.frequency)
        n == ((toTs - HistoryFloor(params)) \div g) + 1
    IN  IF n > MaxObsPerCall + 1 THEN MaxObsPerCall + 1 ELSE n

PageTimes(params, toTs, n) ==
    [k \in 1..n |-> toTs - (n - k) * Interval(params.frequency)]

\* The close column of a page of n rows: prices, or prices behind a sentinel
\* in the earliest row (zero or NaN: the vendor holds nothing that early).
CloseColumns(n) ==
    IF n = 0 THEN {<<>>}
    ELSE {[k \in 1..n |-> Price]} \cup
         {[k \in 1..n |-> IF k = 1 THEN z ELSE Price] : z \in {0, NaN}}

OhlcvPages(params, toTs) ==
    UNION {
        LET t == PageTimes(params, toTs, n)
        IN  {[k \in 1..n |-> [time |-> t[k], close |-> c[k]]] :
                c \in CloseColumns(n)}
        : n \in 0..Available(params, toTs)}

\* Success pages whose rows carry no close column.
OhlcvBadPages(params, toTs) ==
    {LET t == PageTimes(params, toTs, n)
     IN  [k \in 1..n |-> [time |-> t[k], close |-> Missing]]
     : n \in 1..Available(params, toTs)}

OnchainPages(params, symbol, toTs) ==
    {LET t == PageTimes(params, toTs, n)
     IN  [k \in 1..n |-> [time |-> t[k], symbol |-> symbol, value |-> Price]]
     : n \in 0..Available(params, toTs)}

Failures == {[kind |-> "transport"], [kind |-> "badresp"], [kind |-> "fail"]}

OhlcvResponses(params, toTs) ==
    Failures
    \cup {[kind |-> "page", rows |-> p] : p \in OhlcvPages(params, toTs)}
    \cup {[kind |-> "badrows", rows |-> p] : p \in OhlcvBadPages(params, toTs)}

OnchainResponses(params, symbol, toTs) ==
    Failures \cup
    {[kind |-> "page", rows |-> p] : p \in OnchainPages(params, symbol, toTs)}

\* get_fields() asks the vendor for its on-chain keys: the call raises
\* (transport error, no Data key), or returns the price fields followed by
\* the on-chain fields of the answer (none when the answer carries none).
MetaOutcomes == {"ok", "nodata", "raise"}
get_fields(m) == IF m = "ok" THEN OhlcvFields \o OnchainFields ELSE OhlcvFields

(***************************************************************************)
(* The requests the model draws from.                                      *)
(***************************************************************************)
TickerLists == {<<"btc">>, <<"btc", "eth">>, <<"btc", "BTC">>}
Frequencies == {"1min", "d"}
StartDates == {NoDate, 2}
EndDates == {NoDate, 2}
FieldLists ==
    {<<"close">>, <<"active_addresses">>, <<"active_addresses", "close">>,
     <<"close", "bogus">>}

Requests ==
    [tickers : TickerLists, freq : Frequencies, start_date : StartDates,
     end_date : EndDates, fields : FieldLists, trials : 1..MaxTrials]

(***************************************************************************)
(* State.                                                                  *)
(***************************************************************************)
VARIABLES
    data_req,    \* the DataRequest handed to fetch_data
    cc,          \* cc_data_req, the converted parameters
    fields_list, \* the field list fetch_data got from get_fields()
    pc,          \* where fetch_data stands
    ticker_i,    \* the position of the loop over cc_data_req['tickers']
    end_date,    \* the cursor: toTs of the next page request
    attempts,    \* the failed attempts of the symbol
    df0,         \* the raw rows accumulated for the symbol
    df_eng,      \* the table the running fetch_ohlcv / fetch_onchain builds
    df,          \* the table fetch_data builds: [rows, columns]
    outcome,     \* of fetch_data: what it returned or raised
    meta_calls,  \* the metadata calls issued so far
    reqs,        \* the page requests issued for the symbol so far
    answers,     \* what the vendor answered them: all "fail", all "page", "mixed"
    last,        \* the last page exchange: data kind, symbol, toTs, answer,
                 \* the failed attempts counted after it, the rows it added,
                 \* whether its earliest row held a sentinel close
    paused,      \* whether sleep(pause) followed the last page exchange
    walk,        \* per data kind, the symbols finished so far
    client,      \* a CryptoCompare object under construction
    dr           \* a DataRequest object: its attributes and its last call

\* The variables of a run of fetch_data.
fetchVars ==
    <<data_req, cc, fields_list, pc, ticker_i, end_date, attempts, df0, df_eng, df,
      outcome, meta_calls, reqs, answers, last, paused, walk>>

vars == <<fetchVars, client, dr>>

NoTable == [rows |-> <<>>, columns |-> <<>>]
NoExchange ==
    [data |-> None, ticker |-> None, toTs |-> 0, kind |-> None, attempts |-> 0,
     n |-> 0, sentinel |-> FALSE]
Running == [kind |-> "running"]
NoParams ==
    [tickers |-> <<>>, frequency |-> None, start_date |-> 0, end_date |-> 0,
     fields |-> <<>>, trials |-> 0]
\* "if attempts == 3": the loop gives a symbol up at its third failure.
GiveUpAt == 3

\* No CryptoCompare object, no DataRequest object.
NoClient == [pc |-> None]
NoRequest == [status |-> None]

\* fetch_data has not been called.
FetchNotStarted ==
    /\ cc = NoParams
    /\ fields_list = <<>>
    /\ pc = "start"
    /\ ticker_i = 0
    /\ end_date = 0
    /\ attempts = 0
    /\ df0 = <<>>
    /\ df_eng = NoTable
    /\ df = NoTable
    /\ outcome = Running
    /\ meta_calls = 0
    /\ reqs = 0
    /\ answers = None
    /\ last = NoExchange
    /\ paused = FALSE
    /\ walk = [ohlcv |-> <<>>, onchain |-> <<>>]

Init ==
    /\ data_req \in Requests
    /\ FetchNotStarted
    /\ client = NoClient
    /\ dr = NoRequest

(***************************************************************************)
(* fetch_data: the end of the router.                                      *)
(***************************************************************************)
\* The cell of a row under a column.
Cell(row, field) ==
    IF field \in Range(OhlcvFields) THEN row.close ELSE row.value

\* The table with the columns it has, whatever fields are asked for.
ProjectAll(table, fields) ==
    [rows    |-> [i \in DOMAIN table.rows |->
                     [date   |-> table.rows[i].date,
                      ticker |-> table.rows[i].ticker,
                      cells  |-> [k \in DOMAIN table.columns |->
                                     Cell(table.rows[i], table.columns[k])]]],
     columns |-> table.columns]

\* df.loc[:, cc_data_req['fields']]
Project(table, fields) ==
    [rows    |-> [i \in DOMAIN table.rows |->
                     [date   |-> table.rows[i].date,
                      ticker |-> table.rows[i].ticker,
                      cells  |-> [k \in DOMAIN fields |->
                                     Cell(table.rows[i], fields[k])]]],
     columns |-> fields]

\* The end of fetch_data without its "check if df empty".
FinishUnchecked(table) ==
    IF \E k \in DOMAIN cc.fields : cc.fields[k] \notin Range(table.columns)
    THEN [kind |-> "raised", error |-> "KeyError"]
    ELSE LET out == Project(table, cc.fields)
         IN  [kind |-> "returned",
              table |-> [out EXCEPT !.rows = sort_index(out.rows)]]

\* From "check if df empty" to the return.
Finish(table) ==
    IF table.rows = <<>>
    THEN [kind |-> "raised", error |-> "Check data request parameters"]
    ELSE IF \E k \in DOMAIN cc.fields : cc.fields[k] \notin Range(table.columns)
    THEN [kind |-> "raised", error |-> "KeyError"]
    ELSE LET out == Project(table, cc.fields)
         IN  [kind |-> "returned",
              table |-> [out EXCEPT !.rows = sort_index(out.rows)]]

\* fields_list[:5] and fields_list[5:]
ohlcv_list(list) == SubSeq(list, 1, 5)
onchain_list(list) == SubSeq(list, 6, Len(list))

AnyIn(fields, list) == \E k \in DOMAIN fields : fields[k] \in Range(list)
\* A check that one known field is enough.
AllInAny(fields, list) == \E k \in DOMAIN fields : fields[k] \in Range(list)
AllIn(fields, list) == \A k \in DOMAIN fields : fields[k] \in Range(list)

UniqueKeys(rows) ==
    \A i, j \in DOMAIN rows :
        rows[i].date = rows[j].date /\ rows[i].ticker = rows[j].ticker => i = j

\* A row of one data kind under the columns of both.
WithValue(rows) ==
    [i \in DOMAIN rows |->
        [date |-> rows[i].date, ticker |-> rows[i].ticker,
         close |-> rows[i].close, value |-> NaN]]
WithClose(rows) ==
    [i \in DOMAIN rows |->
        [date |-> rows[i].date, ticker |-> rows[i].ticker,
         close |-> NaN, value |-> rows[i].value]]

SameKey(a, b) == a.date = b.date /\ a.ticker = b.ticker

\* The outer join of two tables on their index.
OuterJoin(left, right) ==
    LET matched == [i \in DOMAIN left |->
                       IF \E j \in DOMAIN right : SameKey(left[i], right[j])
                       THEN [left[i] EXCEPT !.value =
                                right[CHOOSE j \in DOMAIN right :
                                          SameKey(left[i], right[j])].value]
                       ELSE left[i]]
        others  == FilterRows(right,
                              {r \in Range(right) :
                                  \A i \in DOMAIN left : ~SameKey(left[i], r)})
    IN  matched \o others

\* df = pd.concat([df, df1]) in fetch_ohlcv and fetch_onchain, for a symbol
\* whose accumulated pages are not empty (wrangled): the frame gets the
\* columns of the normalised pages even when no row of them is left.
ConcatSlice(table, slice, wrangled, columns) ==
    [rows    |-> table.rows \o slice,
     columns |-> IF wrangled THEN columns ELSE table.columns]

\* df = pd.concat([df, df0], axis=1) in fetch_data, df still empty: the
\* frame of fetch_ohlcv.  When its index holds a key twice, concat either
\* raises (the except clause logs, df stays as it was) or keeps the frame
\* as it is: how says which.
ConcatOhlcv(table, eng, how) ==
    IF eng.columns = <<>> THEN table
    ELSE IF ~UniqueKeys(eng.rows) /\ how = "raise" THEN table
    ELSE [rows |-> WithValue(eng.rows), columns |-> eng.columns]

\* df = pd.concat([df, df1], axis=1) in fetch_data.  A frame keyed by date
\* joined with one keyed by (date, ticker) either raises or comes out as the
\* union of both key sets with no key matched; a frame whose index holds a
\* key twice either raises or is joined as it is: how says which.
ConcatOnchain(table, eng, how) ==
    IF eng.columns = <<>> THEN table
    ELSE IF ~UniqueKeys(eng.rows) /\ how = "raise" THEN table
    ELSE IF table.columns = <<>>
    THEN [rows |-> WithClose(eng.rows), columns |-> eng.columns]
    ELSE IF Len(data_req.tickers) = 1
    THEN IF how = "raise" THEN table
         ELSE [rows    |-> table.rows \o WithClose(eng.rows),
               columns |-> table.columns \o eng.columns]
    ELSE [rows    |-> OuterJoin(table.rows, WithClose(eng.rows)),
          columns |-> table.columns \o eng.columns]

(***************************************************************************)
(* fetch_data, up to the first page request.                               *)
(***************************************************************************)
SetEngine(i, cursor, n, acc, table, r, a) ==
    /\ ticker_i' = i
    /\ end_date' = cursor
    /\ attempts' = n
    /\ df0' = acc
    /\ df_eng' = table
    /\ reqs' = r
    /\ answers' = a

\* The loop over the tickers has not started, or is over.
EngineIdle == SetEngine(0, 0, 0, <<>>, NoTable, 0, None)

\* The answers of a symbol so far, one more being of kind.
Answered(kind) ==
    LET k == IF kind \in {"fail", "page"} THEN kind ELSE "mixed"
    IN  IF answers = None \/ answers = k THEN k ELSE "mixed"

\* fetch_data returns or raises.
Return(table) ==
    /\ pc' = "done"
    /\ df' = table
    /\ outcome' = Finish(table)

Raise(error) ==
    /\ pc' = "done"
    /\ df' = df
    /\ outcome' = [kind |-> "raised", error |-> error]

FetchData ==
    /\ pc = "start"
    /\ cc' = convert_data_req_params(data_req)
    /\ meta_calls' = meta_calls + 1
    /\ UNCHANGED <<data_req, last, paused, walk, client, dr>>
    /\ \E m \in MetaOutcomes :
        LET list == get_fields(m)
            params == convert_data_req_params(data_req)
        IN  /\ fields_list' = (IF m = "raise" THEN <<>> ELSE list)
            /\ IF m = "raise"
               THEN Raise("get_fields") /\ EngineIdle
               ELSE IF ~AllIn(params.fields, list)
               THEN Raise("Fields are not available") /\ EngineIdle
               ELSE IF AnyIn(params.fields, ohlcv_list(list))
               THEN /\ pc' = "ohlcv"
                    /\ SetEngine(1, params.end_date, 0, <<>>, NoTable, 0, None)
                    /\ UNCHANGED <<df, outcome>>
               ELSE /\ pc' = "onchain_start"
                    /\ EngineIdle
                    /\ UNCHANGED <<df, outcome>>

(***************************************************************************)
(* fetch_ohlcv: one page request and what follows it.                      *)
(***************************************************************************)
\* A loop whose "except Exception" clause counts an attempt and goes on.
OhlcvLoopRetryAll(resp) ==
    LET isPage   == resp.kind \in {"page", "badrows"}
        data     == IF isPage THEN resp.rows ELSE <<>>
        short    == Len(data) < MaxObsPerCall + 1
        noClose  == isPage /\ ~short /\ data[1].close = Missing
        sentinel == isPage /\ ~short /\ ~noClose /\ data[1].close \in {0, NaN}
        failed   == resp.kind \in {"fail", "transport", "badresp"} \/ noClose
        n        == IF failed THEN attempts + 1 ELSE attempts
        break    == \/ isPage /\ (short \/ sentinel)
                    \/ failed /\ n = GiveUpAt
    IN  [attempts |-> n,
         df0      |-> df0 \o data,
         end_date |-> IF isPage /\ ~break /\ ~noClose THEN data[1].time
                      ELSE end_date,
         paused   |-> failed \/ (isPage /\ ~break),
         leave    |-> break \/ ~(n < cc.trials)]

\* A loop that leaves after its first Success page, full or not.
OhlcvLoopOnePage(resp) ==
    LET isPage   == resp.kind \in {"page", "badrows"}
        data     == IF isPage THEN resp.rows ELSE <<>>
        failed   == resp.kind = "fail"
        n        == IF failed THEN attempts + 1 ELSE attempts
        break    == \/ resp.kind \in {"transport", "badresp"}
                    \/ isPage
                    \/ failed /\ n = GiveUpAt
    IN  [attempts |-> n,
         df0      |-> df0 \o data,
         end_date |-> end_date,
         paused   |-> failed,
         leave    |-> break \/ ~(n < cc.trials)]

\* A loop whose failed attempt puts the cursor back to the requested end.
OhlcvLoopCursorReset(resp) ==
    LET isPage   == resp.kind \in {"page", "badrows"}
        data     == IF isPage THEN resp.rows ELSE <<>>
        short    == Len(data) < MaxObsPerCall + 1
        noClose  == isPage /\ ~short /\ data[1].close = Missing
        sentinel == isPage /\ ~short /\ ~noClose /\ data[1].close \in {0, NaN}
        failed   == resp.kind = "fail"
        n        == IF failed THEN attempts + 1 ELSE attempts
        break    == \/ resp.kind \in {"transport", "badresp"}
                    \/ isPage /\ (short \/ noClose \/ sentinel)
                    \/ failed /\ n = GiveUpAt
    IN  [attempts |-> n,
         df0      |-> df0 \o data,
         end_date |-> IF isPage /\ ~break THEN data[1].time ELSE cc.end_date,
         paused   |-> failed \/ (isPage /\ ~break),
         leave    |-> break \/ ~(n < cc.trials)]

\* A loop whose Success page sets the failed attempts back to zero.
OhlcvLoopAttemptsReset(resp) ==
    LET isPage   == resp.kind \in {"page", "badrows"}
        data     == IF isPage THEN resp.rows ELSE <<>>
        short    == Len(data) < MaxObsPerCall + 1
        noClose  == isPage /\ ~short /\ data[1].close = Missing
        sentinel == isPage /\ ~short /\ ~noClose /\ data[1].close \in {0, NaN}
        failed   == resp.kind = "fail"
        n        == IF failed THEN attempts + 1 ELSE IF isPage THEN 0
                    ELSE attempts
        break    == \/ resp.kind \in {"transport", "badresp"}
                    \/ isPage /\ (short \/ noClose \/ sentinel)
                    \/ failed /\ n = GiveUpAt
    IN  [attempts |-> n,
         df0      |-> df0 \o data,
         end_date |-> IF isPage /\ ~break THEN data[1].time ELSE end_date,
         paused   |-> failed \/ (isPage /\ ~break),
         leave    |-> break \/ ~(n < cc.trials)]

\* A loop without the "if attempts == 3" of its except clause.
OhlcvLoopNoGiveUp(resp) ==
    LET isPage   == resp.kind \in {"page", "badrows"}
        data     == IF isPage THEN resp.rows ELSE <<>>
        short    == Len(data) < MaxObsPerCall + 1
        noClose  == isPage /\ ~short /\ data[1].close = Missing
        sentinel == isPage /\ ~short /\ ~noClose /\ data[1].close \in {0, NaN}
        failed   == resp.kind = "fail"
        n        == IF failed THEN attempts + 1 ELSE attempts
        break    == \/ resp.kind \in {"transport", "badresp"}
                    \/ isPage /\ (short \/ noClose \/ sentinel)
    IN  [attempts |-> n,
         df0      |-> df0 \o data,
         end_date |-> IF isPage /\ ~break THEN data[1].time ELSE end_date,
         paused   |-> failed \/ (isPage /\ ~break),
         leave    |-> break \/ ~(n < cc.trials)]

\* A loop whose except clause does not count the failed attempt.
OhlcvLoopFailureUncounted(resp) ==
    LET isPage   == resp.kind \in {"page", "badrows"}
        data     == IF isPage THEN resp.rows ELSE <<>>
        short    == Len(data) < MaxObsPerCall + 1
        noClose  == isPage /\ ~short /\ data[1].close = Missing
        sentinel == isPage /\ ~short /\ ~noClose /\ data[1].close \in {0, NaN}
        failed   == resp.kind = "fail"
        n        == attempts
        break    == \/ resp.kind \in {"transport", "badresp"}
                    \/ isPage /\ (short \/ noClose \/ sentinel)
                    \/ failed /\ n = GiveUpAt
    IN  [attempts |-> n,
         df0      |-> df0 \o data,
         end_date |-> IF isPage /\ ~break THEN data[1].time ELSE end_date,
         paused   |-> failed \/ (isPage /\ ~break),
         leave    |-> break \/ ~(n < cc.trials)]

\* A loop that goes from a Success page to the next request without
\* sleep(pause).
OhlcvLoopNoPauseOnSuccess(resp) ==
    LET isPage   == resp.kind \in {"page", "badrows"}
        data     == IF isPage THEN resp.rows ELSE <<>>
        short    == Len(data) < MaxObsPerCall + 1
        noClose  == isPage /\ ~short /\ data[1].close = Missing
        sentinel == isPage /\ ~short /\ ~noClose /\ data[1].close \in {0, NaN}
        failed   == resp.kind = "fail"
        n        == IF failed THEN attempts + 1 ELSE attempts
        break    == \/ resp.kind \in {"transport", "badresp"}
                    \/ isPage /\ (short \/ noClose \/ sentinel)
                    \/ failed /\ n = GiveUpAt
    IN  [attempts |-> n,
         df0      |-> df0 \o data,
         end_date |-> IF isPage /\ ~break THEN data[1].time ELSE end_date,
         paused   |-> failed,
         leave    |-> break \/ ~(n < cc.trials)]

\* One pass of the while loop, given the vendor's answer.
OhlcvLoop(resp) ==
    LET isPage   == resp.kind \in {"page", "badrows"}
        data     == IF isPage THEN resp.rows ELSE <<>>
        short    == Len(data) < MaxObsPerCall + 1
        \* data.close raises AttributeError on a page without the column
        noClose  == isPage /\ ~short /\ data[1].close = Missing
        sentinel == isPage /\ ~short /\ ~noClose /\ data[1].close \in {0, NaN}
        failed   == resp.kind = "fail"
        n        == IF failed THEN attempts + 1 ELSE attempts
        break    == \/ resp.kind \in {"transport", "badresp"}
                    \/ isPage /\ (short \/ noClose \/ sentinel)
                    \/ failed /\ n = GiveUpAt
    IN  [attempts |-> n,
         df0      |-> df0 \o data,
         end_date |-> IF isPage /\ ~break THEN data[1].time ELSE end_date,
         paused   |-> failed \/ (isPage /\ ~break),
         leave    |-> break \/ ~(n < cc.trials)]

\* Every slice tagged with the first ticker of the request.
OhlcvSliceFirstTicker(acc, ticker) ==
    IF acc = <<>> THEN <<>>
    ELSE LET df1 == wrangle_ohlcv_resp(data_req, acc)
         IN  IF Len(data_req.tickers) > 1
             THEN sort_index([i \in DOMAIN df1 |->
                                 [df1[i] EXCEPT !.ticker = cc.tickers[1]]])
             ELSE df1

\* "wrangle data resp": the rows a symbol adds to the table of fetch_ohlcv.
OhlcvSlice(acc, ticker) ==
    IF acc = <<>> THEN <<>>
    ELSE LET df1 == wrangle_ohlcv_resp(data_req, acc)
         IN  IF Len(data_req.tickers) > 1
             THEN sort_index([i \in DOMAIN df1 |->
                                 [df1[i] EXCEPT !.ticker = ticker]])
             ELSE df1

\* What the walk keeps of a symbol that is done.
Walked(ticker, kind, slice, raised) ==
    [ticker |-> ticker, answers |-> Answered(kind), slice |-> slice,
     raised |-> raised]

\* fetch_data after its "fetch OHLCV data" block, df being table.
AfterOhlcv(table) ==
    IF AnyIn(cc.fields, onchain_list(fields_list))
    THEN /\ pc' = "onchain_start"
         /\ df' = table
         /\ UNCHANGED outcome
    ELSE Return(table)

FetchOhlcvPage ==
    /\ pc = "ohlcv"
    /\ UNCHANGED <<data_req, cc, fields_list, meta_calls, client, dr>>
    /\ \E resp \in OhlcvResponses(cc, end_date) :
        LET ticker == cc.tickers[ticker_i]
            step   == OhlcvLoop(resp)
            raises == step.df0 /= <<>> /\ WrangleOhlcvRaises(step.df0)
            slice  == IF raises THEN <<>> ELSE OhlcvSlice(step.df0, ticker)
            grown  == ConcatSlice(df_eng, slice, step.df0 /= <<>>, OhlcvFields)
        IN  /\ last' = [data |-> "ohlcv", ticker |-> ticker,
                        toTs |-> end_date, kind |-> resp.kind,
                        attempts |-> step.attempts,
                        n |-> Len(step.df0) - Len(df0),
                        sentinel |-> /\ resp.kind = "page"
                                     /\ resp.rows /= <<>>
                                     /\ resp.rows[1].close \in {0, NaN}]
            /\ paused' = step.paused
            /\ IF ~step.leave
               THEN /\ SetEngine(ticker_i, step.end_date, step.attempts,
                                 step.df0, df_eng, reqs + 1,
                                 Answered(resp.kind))
                    /\ UNCHANGED <<pc, df, outcome, walk>>
               ELSE /\ walk' = [walk EXCEPT !.ohlcv =
                                   Append(@, Walked(ticker, resp.kind,
                                                    slice, raises))]
                    /\ IF raises
                       \* the KeyError leaves fetch_ohlcv; fetch_data logs it
                       THEN EngineIdle /\ AfterOhlcv(df)
                       ELSE IF ticker_i < Len(cc.tickers)
                       THEN /\ SetEngine(ticker_i + 1, cc.end_date, 0, <<>>,
                                         grown, 0, None)
                            /\ UNCHANGED <<pc, df, outcome>>
                       ELSE /\ EngineIdle
                            /\ \E how \in {"raise", "keep"} :
                                  AfterOhlcv(ConcatOhlcv(df, grown, how))

(***************************************************************************)
(* fetch_onchain                                                           *)
(***************************************************************************)
\* From the call of fetch_onchain to its loop over the tickers.  Whatever
\* it raises, fetch_data logs and goes on to "check if df empty".
FetchOnchainStart ==
    /\ pc = "onchain_start"
    /\ UNCHANGED <<data_req, cc, fields_list, last, paused, walk, client, dr>>
    /\ \/ /\ cc.frequency /= "histoday"
          /\ UNCHANGED meta_calls
          /\ EngineIdle
          /\ Return(df)
       \/ /\ cc.frequency = "histoday"
          /\ meta_calls' = meta_calls + 1
          /\ \E m \in MetaOutcomes :
                IF m /= "raise" /\ AnyIn(cc.fields, onchain_list(get_fields(m)))
                THEN /\ pc' = "onchain"
                     /\ SetEngine(1, cc.end_date, 0, <<>>, NoTable, 0, None)
                     /\ UNCHANGED <<df, outcome>>
                ELSE EngineIdle /\ Return(df)

\* One pass of the while loop.  A row that carries its symbol is neither
\* all zero nor all NaN, so only a short page ends the walk of a symbol.
OnchainLoop(resp) ==
    LET isPage == resp.kind = "page"
        data   == IF isPage THEN resp.rows ELSE <<>>
        short  == Len(data) < MaxObsPerCall + 1
        failed == resp.kind = "fail"
        n      == IF failed THEN attempts + 1 ELSE attempts
        break  == \/ resp.kind \in {"transport", "badresp"}
                  \/ isPage /\ short
                  \/ failed /\ n = GiveUpAt
    IN  [attempts |-> n,
         df0      |-> df0 \o data,
         end_date |-> IF isPage /\ ~break THEN data[1].time ELSE end_date,
         paused   |-> failed \/ (isPage /\ ~break),
         leave    |-> break \/ ~(n < cc.trials)]

OnchainSlice(acc) ==
    IF acc = <<>> THEN <<>> ELSE wrangle_onchain_resp(data_req, acc)

FetchOnchainPage ==
    /\ pc = "onchain"
    /\ UNCHANGED <<data_req, cc, fields_list, meta_calls, client, dr>>
    /\ \E resp \in OnchainResponses(cc, cc.tickers[ticker_i], end_date) :
        LET ticker == cc.tickers[ticker_i]
            step   == OnchainLoop(resp)
            slice  == OnchainSlice(step.df0)
            grown  == ConcatSlice(df_eng, slice, step.df0 /= <<>>,
                                  OnchainFields)
        IN  /\ last' = [data |-> "onchain", ticker |-> ticker,
                        toTs |-> end_date, kind |-> resp.kind,
                        attempts |-> step.attempts,
                        n |-> Len(step.df0) - Len(df0),
                        sentinel |-> FALSE]
            /\ paused' = step.paused
            /\ IF ~step.leave
               THEN /\ SetEngine(ticker_i, step.end_date, step.attempts,
                                 step.df0, df_eng, reqs + 1,
                                 Answered(resp.kind))
                    /\ UNCHANGED <<pc, df, outcome, walk>>
               ELSE /\ walk' = [walk EXCEPT !.onchain =
                                   Append(@, Walked(ticker, resp.kind,
                                                    slice, FALSE))]
                    /\ IF ticker_i < Len(cc.tickers)
                       THEN /\ SetEngine(ticker_i + 1, cc.end_date, 0, <<>>,
                                         grown, 0, None)
                            /\ UNCHANGED <<pc, df, outcome>>
                       ELSE /\ EngineIdle
                            /\ \E how \in {"raise", "union"} :
                                  Return(ConcatOnchain(df, grown, how))

Next ==
    \/ FetchData
    \/ FetchOhlcvPage
    \/ FetchOnchainStart
    \/ FetchOnchainPage

Spec == Init /\ [][Next]_vars

\* fetch_data for a request of each frequency the DataRequest accepts.
FreqRequests ==
    [tickers : {<<"btc">>}, freq : FreqTokens, start_date : {NoDate},
     end_date : EndDates,
     fields : {<<"close">>, <<"active_addresses">>}, trials : {1}]

FreqInit ==
    /\ data_req \in FreqRequests
    /\ FetchNotStarted
    /\ client = NoClient
    /\ dr = NoRequest

SpecFreq == FreqInit /\ [][Next]_vars

\* Where fetch_data stands: the block it is in, the symbol of the loop over
\* the tickers and the requests issued for it.  Every step moves it.
position == <<pc, ticker_i, reqs>>

\* fetch_data moves on: to the next request of the symbol, to the next
\* symbol, or out of the loop.
Proceeds ==
    /\ pc /= "done"
    /\ pc' \in {"ohlcv", "onchain_start", "onchain", "done"}
    /\ ticker_i' \in {0, 1, ticker_i, ticker_i + 1}
    /\ reqs' \in {0, reqs + 1}

\* The same, the program running on while it is not over: every HTTP
\* request is answered or raises, and the code between two requests runs
\* to the next.
FairSpec == Spec /\ WF_position(Proceeds)

(***************************************************************************)
(* CryptoCompare.__init__: the API key check, then one catalog call for    *)
(* every catalog entry the caller did not hand in.                         *)
(***************************************************************************)
\* The defaults of DataRequest.__init__.
DefaultRequest ==
    [tickers |-> <<"btc">>, freq |-> "d", start_date |-> NoDate,
     end_date |-> NoDate, fields |-> <<"close">>, trials |-> 3]

\* The vendor's answer to a catalog call: a Success body ("ok"), a
\* non-Success body with an empty Data object ("fail") or with no Data key
\* ("failbare"), or no answer at all ("transport": requests.get raises).
CatalogResponses == {"ok", "fail", "failbare", "transport"}

\* A check that lets every key through.
KeyMissingNever(api_key) == FALSE

\* if api_key is None
KeyMissing(api_key) == api_key = None

\* What a catalog getter makes of the vendor's answer.  Only the assert on
\* the status is guarded (except AssertionError logs a warning); the body
\* is then read whatever the status was.
Getter(entry, resp) ==
    IF resp = "transport"
    THEN [raised |-> TRUE, warned |-> FALSE, value |-> None]
    ELSE IF resp = "failbare"
    THEN [raised |-> TRUE, warned |-> TRUE, value |-> None]
    ELSE IF resp = "fail"
    THEN IF entry \in {"markets", "exchanges"}
         \* data_resp['pairs'] and exch.set_index('Name') raise KeyError
         THEN [raised |-> TRUE, warned |-> TRUE, value |-> None]
         ELSE [raised |-> FALSE, warned |-> TRUE,
               value |-> IF entry = "fields" THEN "ohlcv" ELSE "empty"]
    ELSE [raised |-> FALSE, warned |-> FALSE, value |-> "full"]

\* The arguments of the constructor, as DataSource.__init__ stores them.
ClientArgs ==
    [api_key : {None, "key"}, assets : {None, "given"},
     indexes : {None, "given"}, markets : {None, "given"},
     fields : {None, "given"}, exchanges : {None, "given"},
     rate_limit : {None, "given"},
     pc : {"api_key"}, calls : {0}, warnings : {0}]

ClientInit ==
    /\ data_req = DefaultRequest
    /\ FetchNotStarted
    /\ dr = NoRequest
    /\ client \in ClientArgs

CheckApiKey ==
    /\ client.pc = "api_key"
    /\ client' = [client EXCEPT !.pc = IF KeyMissing(client.api_key)
                                        THEN "raised" ELSE "assets"]
    /\ UNCHANGED <<fetchVars, dr>>

\* if <entry> is None: self._<entry> = self.get_<entry>(...)
CatalogStep(entry, next) ==
    /\ client.pc = entry
    /\ UNCHANGED <<fetchVars, dr>>
    /\ IF client[entry] /= None
       THEN client' = [client EXCEPT !.pc = next]
       ELSE \E resp \in CatalogResponses :
               LET g == Getter(entry, resp)
               IN  client' =
                       [client EXCEPT
                           ![entry] = IF g.raised THEN @ ELSE g.value,
                           !.pc = IF g.raised THEN "raised" ELSE next,
                           !.calls = @ + 1,
                           !.warnings = IF g.warned THEN @ + 1 ELSE @]

SetAssets == CatalogStep("assets", "indexes")
SetIndexes == CatalogStep("indexes", "markets")
SetMarkets == CatalogStep("markets", "fields")
SetFields == CatalogStep("fields", "exchanges")
SetExchanges == CatalogStep("exchanges", "rate_limit")
SetRateLimit == CatalogStep("rate_limit", "constructed")

ClientNext ==
    \/ CheckApiKey
    \/ SetAssets
    \/ SetIndexes
    \/ SetMarkets
    \/ SetFields
    \/ SetExchanges
    \/ SetRateLimit

SpecClient == ClientInit /\ [][ClientNext]_vars

(***************************************************************************)
(* DataRequest: construction and the setters of tickers, freq, trials and  *)
(* pause.  A Python value is a record of its type and its content; a       *)
(* number is held in tenths, so that 0.1 is [type |-> "float", n |-> 1].   *)
(***************************************************************************)
\* The values assigned to tickers: a string, lists, a number.
TickerInputs ==
    {[type |-> "str", s |-> "btc", l |-> <<>>],
     [type |-> "list", s |-> "", l |-> <<[type |-> "str", s |-> "btc"]>>],
     [type |-> "list", s |-> "", l |-> <<>>],
     [type |-> "list", s |-> "",
      l |-> <<[type |-> "str", s |-> "btc"], [type |-> "int", s |-> "5"]>>],
     [type |-> "int", s |-> "5", l |-> <<>>]}

\* The values assigned to freq: tokens of the setter's list, and others.
FreqInputs == {"d", "1min", "1h", "15min", "daily"}

\* The values assigned to trials: None, 3, 0, -1, '3', 1.5.
TrialsInputs ==
    {[type |-> "NoneType", n |-> 0], [type |-> "int", n |-> 30],
     [type |-> "int", n |-> 0], [type |-> "int", n |-> -10],
     [type |-> "str", n |-> 30], [type |-> "float", n |-> 15]}

\* The values assigned to pause: None, 0.1, 0.0, -0.5, 1, '1'.
PauseInputs ==
    {[type |-> "NoneType", n |-> 0], [type |-> "float", n |-> 1],
     [type |-> "float", n |-> 0], [type |-> "float", n |-> -5],
     [type |-> "int", n |-> 10], [type |-> "str", n |-> 10]}

\* The tickers setter: a list is stored as it is, a string as a list of it,
\* anything else raises.
TickersAccepted(tickers) == tickers.type \in {"list", "str"}
TickersStored(tickers) ==
    IF tickers.type = "list" THEN tickers.l
    ELSE <<[type |-> "str", s |-> tickers.s]>>

\* A freq setter that stores whatever it is given.
FreqAcceptedAll(frequency) == TRUE

\* The freq setter: if frequency not in [...]: raise.
FreqAccepted(frequency) == frequency \in FreqTokens

\* The trials setter: None and every int are stored; for anything else the
\* elif reads the undefined name trial and raises NameError.
TrialsAccepted(trials) == trials.type \in {"NoneType", "int"}

\* The pause setter: None and every float are stored, anything else raises.
PauseAccepted(pause) == pause.type \in {"NoneType", "float"}

RequestInit ==
    /\ data_req = DefaultRequest
    /\ FetchNotStarted
    /\ client = NoClient
    /\ dr = NoRequest

\* DataRequest.__init__: the setters in turn; the first that raises ends
\* construction and no object comes to be.
Construct ==
    /\ dr.status = None
    /\ UNCHANGED <<fetchVars, client>>
    /\ \E t \in TickerInputs, f \in FreqInputs, n \in TrialsInputs,
          p \in PauseInputs :
          dr' = IF /\ TickersAccepted(t) /\ FreqAccepted(f)
                   /\ TrialsAccepted(n) /\ PauseAccepted(p)
                THEN [status |-> "live", tickers |-> TickersStored(t),
                      freq |-> f, trials |-> n, pause |-> p,
                      op |-> "init", freq_arg |-> f, raised |-> FALSE]
                ELSE [status |-> "failed"]

SetTickers ==
    /\ dr.status = "live"
    /\ UNCHANGED <<fetchVars, client>>
    /\ \E t \in TickerInputs :
          dr' = [dr EXCEPT !.op = "tickers",
                           !.raised = ~TickersAccepted(t),
                           !.tickers = IF TickersAccepted(t)
                                       THEN TickersStored(t) ELSE @]

SetFreq ==
    /\ dr.status = "live"
    /\ UNCHANGED <<fetchVars, client>>
    /\ \E f \in FreqInputs :
          dr' = [dr EXCEPT !.op = "freq", !.freq_arg = f,
                           !.raised = ~FreqAccepted(f),
                           !.freq = IF FreqAccepted(f) THEN f ELSE @]

SetTrials ==
    /\ dr.status = "live"
    /\ UNCHANGED <<fetchVars, client>>
    /\ \E n \in TrialsInputs :
          dr' = [dr EXCEPT !.op = "trials",
                           !.raised = ~TrialsAccepted(n),
                           !.trials = IF TrialsAccepted(n) THEN n ELSE @]

SetPause ==
    /\ dr.status = "live"
    /\ UNCHANGED <<fetchVars, client>>
    /\ \E p \in PauseInputs :
          dr' = [dr EXCEPT !.op = "pause",
                           !.raised = ~PauseAccepted(p),
                           !.pause = IF PauseAccepted(p) THEN p ELSE @]

RequestNext ==
    \/ Construct
    \/ SetTickers
    \/ SetFreq
    \/ SetTrials
    \/ SetPause

SpecRequest == RequestInit /\ [][RequestNext]_vars


(***************************************************************************)
(* Properties.                                                             *)
(***************************************************************************)
\* Only price fields are requested.
PriceOnly == AllIn(data_req.fields, OhlcvFields)
\* Price fields and on-chain fields are requested together.
BothKinds ==
    AnyIn(data_req.fields, OhlcvFields) /\ AnyIn(data_req.fields, OnchainFields)

RowsOfTicker(rows, t) == FilterRows(rows, {r \in Range(rows) : r.ticker = t})

\* A slice of fetch_ohlcv as fetch_data returns its rows.
AsReturned(slice) ==
    Project([rows |-> WithValue(slice), columns |-> OhlcvFields], cc.fields).rows

\* The symbol a walk finished last.
LastWalked(kind) == walk[kind][Len(walk[kind])]

StrictlyIncreasing(rows) ==
    \A i, j \in DOMAIN rows : i < j => rows[i].date < rows[j].date

\* The start of the trailing window of a minute request, in epoch seconds.
ClampTs == NowTs - ClampDays * DaySecs

C2_ExactRetryCount ==
    (/\ last.kind = "fail"
     /\ walk[last.data] /= <<>>
     /\ LastWalked(last.data).ticker = last.ticker
     /\ LastWalked(last.data).answers = "fail") =>
        /\ last.attempts = cc.trials
        /\ last.toTs = cc.end_date
        /\ ~LastWalked(last.data).raised

\* C3: when start and end are both set, every row of the returned table has
\* a timestamp between the start and the end, both included.
C3_Window ==
    (/\ outcome.kind = "returned"
     /\ data_req.start_date /= NoDate
     /\ data_req.end_date /= NoDate) =>
        \A i \in DOMAIN outcome.table.rows :
            /\ Timestamp(data_req.start_date) <= outcome.table.rows[i].date
            /\ outcome.table.rows[i].date <= Timestamp(data_req.end_date)

\* A table was returned after a page that reached back before the start.
C3_Witness ==
    /\ outcome.kind = "returned"
    /\ data_req.start_date /= NoDate
    /\ data_req.end_date /= NoDate
    /\ outcome.table.rows /= <<>>
    /\ last.kind = "page" /\ last.n > 0
    /\ last.toTs < convert_datetime_to_unix_tmsp(data_req.start_date)

C5_NeverEmpty ==
    /\ outcome.kind = "returned" => outcome.table.rows /= <<>>
    /\ (pc = "done" /\ df.rows = <<>>) => outcome.kind = "raised"

\* Pages were requested, no row was gathered, fetch_data raised.
C5_Witness ==
    /\ pc = "done" /\ df.rows = <<>>
    /\ last.kind = "page"
    /\ outcome = [kind |-> "raised", error |-> "Check data request parameters"]

\* C6: a request with an on-chain field and a frequency that is not daily
\* issues no HTTP call (metadata or page) and ends with an error.
C6_NoHttpCall ==
    (/\ AnyIn(data_req.fields, OnchainFields)
     /\ ConvertFreq(data_req.freq) /= "histoday") =>
        /\ meta_calls = 0
        /\ last = NoExchange
        /\ pc = "done" => outcome.kind = "raised"

\* C7: for a minute frequency the translated start is now minus 7 days, and
\* a request whose start is unset or earlier than that is answered with no
\* observation older than that.
C7_MinuteClamp ==
    (pc /= "start" /\ Last3(data_req.freq) = "min") =>
        /\ cc.start_date = ClampTs
        /\ (/\ outcome.kind = "returned"
            /\ data_req.start_date < NowDay - ClampDays) =>
              \A i \in DOMAIN outcome.table.rows :
                  outcome.table.rows[i].date >= to_datetime(ClampTs)

\* C8: in a price fetch of two different symbols, whatever failed for a symbol, every
\* symbol of the request is fetched, and every symbol whose pages normalise
\* to rows has them in the returned table.
C8_LaterSymbolsFetched ==
    (pc = "done" /\ PriceOnly /\ Len(data_req.tickers) = 2
     /\ cc.tickers[1] /= cc.tickers[2] /\ walk.ohlcv /= <<>>) =>
        /\ Len(walk.ohlcv) = 2
        /\ \A i \in DOMAIN walk.ohlcv :
              walk.ohlcv[i].slice /= <<>> =>
                  /\ outcome.kind = "returned"
                  /\ RowsOfTicker(outcome.table.rows, walk.ohlcv[i].ticker)
                         = AsReturned(walk.ohlcv[i].slice)

\* C9: a transport error on a page request counts as a failed attempt, is
\* followed by a pause, and, while attempts remain, by a request for the
\* same symbol with the same cursor.
C9_TransportRetried ==
    [][(pc \in {"ohlcv", "onchain"} /\ last'.kind = "transport") =>
          /\ last'.attempts = attempts + 1
          /\ paused'
          /\ (attempts + 1 < cc.trials) =>
                pc' = pc /\ ticker_i' = ticker_i /\ end_date' = end_date]_vars

\* C10: a page response that does not match the expected schema (a body
\* without the expected keys, or rows without the close column) ends the
\* walk of its symbol: the next request, if any, is for the next symbol, no
\* attempt is counted and no pause follows; after a body without the
\* expected keys the pages accumulated before it are normalised and handed
\* on as the symbol's rows.
C10_SchemaMismatchEndsPaging ==
    [][(pc \in {"ohlcv", "onchain"} /\ last'.kind \in {"badresp", "badrows"}) =>
          LET k == last'.data
              e == walk'[k][Len(walk'[k])]
              more == ticker_i < Len(cc.tickers) /\ ~e.raised
              kept == IF k = "ohlcv" THEN OhlcvSlice(df0, last'.ticker)
                      ELSE OnchainSlice(df0)
          IN  /\ Len(walk'[k]) = Len(walk[k]) + 1
              /\ e.ticker = last'.ticker
              /\ more => pc' = pc /\ ticker_i' = ticker_i + 1
              /\ ~more => pc' /= pc
              /\ last'.attempts = attempts
              /\ ~paused'
              /\ last'.kind = "badresp" =>
                    /\ ~e.raised
                    /\ e.slice = kept
                    /\ more => df_eng'.rows = df_eng.rows \o kept
                    /\ (~more /\ k = "ohlcv" /\ UniqueKeys(df_eng.rows \o kept)) =>
                          df'.rows = WithValue(df_eng.rows \o kept)]_vars

\* A body without the expected keys came after a page of the symbol, and the
\* rows of that page were returned.
C10_Witness ==
    /\ last.kind = "badresp" /\ last.data = "ohlcv"
    /\ last.toTs < cc.end_date
    /\ LastWalked("ohlcv").ticker = last.ticker
    /\ LastWalked("ohlcv").slice /= <<>>
    /\ outcome.kind = "returned"
    /\ PriceOnly


\* C11: when a requested field is not in the field list the catalog call
\* gave, fetch_data has ended with an error after that one call: no page
\* request was issued for any symbol, and the catalog call was not repeated.
C11_UnknownFieldFailsFast ==
    (pc /= "start" /\ \E k \in DOMAIN data_req.fields :
                          data_req.fields[k] \notin Range(fields_list)) =>
        /\ pc = "done"
        /\ outcome.kind = "raised"
        /\ last = NoExchange
        /\ walk = [ohlcv |-> <<>>, onchain |-> <<>>]
        /\ meta_calls = 1

\* A request of a known and an unknown field, the catalog call answered.
C11_Witness ==
    /\ data_req.fields = <<"close", "bogus">>
    /\ fields_list = OhlcvFields \o OnchainFields
    /\ outcome = [kind |-> "raised", error |-> "Fields are not available"]


C13_KeyShape ==
    outcome.kind = "returned" =>
        \A i \in DOMAIN outcome.table.rows :
            (outcome.table.rows[i].ticker = NoTicker)
                <=> (Len(data_req.tickers) = 1)


\* C14: a returned table holds no two rows of the same (timestamp, symbol)
\* pair, also when the request names a ticker twice or in two letter cases,
\* and no price row whose close is the zero sentinel.
C14_NoDuplicatePairs ==
    outcome.kind = "returned" =>
        /\ \A i, j \in DOMAIN outcome.table.rows :
              (/\ outcome.table.rows[i].date = outcome.table.rows[j].date
               /\ outcome.table.rows[i].ticker = outcome.table.rows[j].ticker)
                  => i = j
        /\ \A i \in DOMAIN df.rows : df.rows[i].close /= 0


\* The rows of a returned table that stand for symbol t at timestamp d.
RowsAt(d, t) ==
    {i \in DOMAIN outcome.table.rows :
        /\ outcome.table.rows[i].date = d
        /\ outcome.table.rows[i].ticker \in {t, NoTicker}}

\* C15: in a request of different symbols that mixes price and on-chain
\* fields, a timestamp for which a symbol has both a normalised price row and
\* a normalised on-chain row comes back as exactly one row of that symbol,
\* carrying the values of both kinds, whether one symbol is named or more
\* (no normalisation having raised).
C15_JoinedOnSharedIndex ==
    (/\ pc = "done" /\ BothKinds
     /\ \A a, b \in DOMAIN cc.tickers : cc.tickers[a] = cc.tickers[b] => a = b
     /\ \A a \in DOMAIN walk.ohlcv : ~walk.ohlcv[a].raised) =>
        \A a \in DOMAIN walk.ohlcv, b \in DOMAIN walk.onchain :
            walk.ohlcv[a].ticker = walk.onchain[b].ticker =>
                \A x \in DOMAIN walk.ohlcv[a].slice :
                    (\E y \in DOMAIN walk.onchain[b].slice :
                        walk.onchain[b].slice[y].date = walk.ohlcv[a].slice[x].date)
                    => /\ outcome.kind = "returned"
                       /\ \E i \in DOMAIN outcome.table.rows :
                             /\ RowsAt(walk.ohlcv[a].slice[x].date,
                                       walk.ohlcv[a].ticker) = {i}
                             /\ outcome.table.rows[i].cells = <<Price, Price>>


\* C16: a client constructed with no API key ends in an error right away:
\* no catalog call is issued before it, and none after.
C16_NoKeyFailsFirst ==
    client.api_key = None =>
        /\ client.calls = 0
        /\ client.warnings = 0
        /\ client.pc \in {"api_key", "raised"}

\* No key, no catalog entry handed in: construction has raised.
C16_Witness ==
    /\ client.api_key = None
    /\ client.assets = None /\ client.fields = None
    /\ client.pc = "raised"

\* C17: with an API key, construction never ends in an error, whatever the
\* vendor answers to the catalog calls: a failed call logs a warning and
\* leaves its entry empty, and the entries after it are still populated.
C17_ConstructionCompletes ==
    client.api_key /= None =>
        /\ client.pc /= "raised"
        /\ client.pc = "constructed" =>
              /\ client.warnings <= client.calls
              /\ \A e \in {"assets", "indexes", "markets", "fields",
                           "exchanges", "rate_limit"} : client[e] /= None


\* C18: a DataRequest object always holds a positive integer as trials and a
\* positive number as pause.
C18_RetryPolicyPositive ==
    dr.status = "live" =>
        /\ dr.trials.type = "int" /\ dr.trials.n > 0
        /\ dr.pause.type \in {"int", "float"} /\ dr.pause.n > 0

C20_TickersNonEmptyStrings ==
    dr.status = "live" =>
        /\ dr.tickers /= <<>>
        /\ \A i \in DOMAIN dr.tickers : dr.tickers[i].type = "str"


\* C21: the field list is fetched at construction only: fetch_data and
\* fetch_onchain issue no metadata call.
C21_NoMetadataCallInFetch == [][meta_calls' = meta_calls]_vars


\* A page request is about to be issued for the symbol at ticker_i.
InEngine == pc \in {"ohlcv", "onchain"}
\* A step of the engine after which the loop of the same symbol goes on.
GoesOn == InEngine /\ pc' = pc /\ ticker_i' = ticker_i
\* A step of the engine that ends the loop of its symbol.
EndsSymbol == InEngine /\ ~(pc' = pc /\ ticker_i' = ticker_i)
\* The earliest timestamp of the page a step received, of n rows up to toTs.
EarliestOf(exchange) ==
    exchange.toTs - (exchange.n - 1) * Interval(cc.frequency)

\* C22: after a successful page whose earliest observation is at or before
\* the requested start, no further page is requested for the symbol.
C22_StopsAtFloor ==
    [][(GoesOn /\ last'.kind = "page") =>
          /\ df0'[Len(df0) + 1].time = EarliestOf(last')
          /\ EarliestOf(last') > cc.start_date]_vars


\* C23: a successful price page whose earliest row carries a zero or NaN
\* close ends the paging of its symbol, and no row with such a close is in
\* the rows normalised for a symbol.
C23_SentinelEndsPaging ==
    /\ [](\A i \in DOMAIN walk.ohlcv : \A j \in DOMAIN walk.ohlcv[i].slice :
             walk.ohlcv[i].slice[j].close \notin {0, NaN})
    /\ [][(pc = "ohlcv" /\ last'.kind = "page" /\ last'.sentinel) =>
             /\ EndsSymbol
             /\ Len(walk'.ohlcv) = Len(walk.ohlcv) + 1
             /\ walk'.ohlcv[Len(walk'.ohlcv)].ticker = last'.ticker]_vars

\* A full page came back with a sentinel in its earliest row: the symbol is
\* done and the other row of the page is among its rows.
C23_Witness ==
    /\ last.data = "ohlcv" /\ last.kind = "page" /\ last.sentinel
    /\ last.n = MaxObsPerCall + 1
    /\ LastWalked("ohlcv").ticker = last.ticker
    /\ LastWalked("ohlcv").slice /= <<>>


C25_Cursor ==
    [][/\ (~InEngine /\ pc' \in {"ohlcv", "onchain"}) =>
             ticker_i' = 1 /\ end_date' = cc'.end_date
       /\ InEngine =>
             /\ last'.toTs = end_date
             /\ (pc' = pc /\ ticker_i' /= ticker_i) =>
                   ticker_i' = ticker_i + 1 /\ end_date' = cc.end_date
             /\ GoesOn =>
                   /\ end_date' <= end_date
                   /\ last'.kind = "page" =>
                         /\ end_date' = EarliestOf(last')
                         /\ end_date' = df0'[Len(df0) + 1].time
                   /\ last'.kind /= "page" => end_date' = end_date]_vars

\* An attempt failed after a page had moved the cursor: the next request
\* carries the moved cursor.
C25_Witness ==
    /\ InEngine
    /\ last.kind = "fail" /\ last.ticker = cc.tickers[ticker_i]
    /\ df0 /= <<>>
    /\ end_date < cc.end_date /\ last.toTs = end_date


\* The smaller of two numbers.
Min(a, b) == IF a < b THEN a ELSE b

\* C26: the failed attempts of a symbol start at zero, whatever the symbols
\* before it did; a non-Success answer adds one to them and nothing else
\* changes them while the loop of the symbol goes on: a successful page
\* neither resets nor lowers them.
C26_AttemptBudget ==
    [][/\ (~InEngine /\ pc' \in {"ohlcv", "onchain"}) => attempts' = 0
       /\ InEngine =>
             /\ (pc' = pc /\ ticker_i' /= ticker_i) => attempts' = 0
             /\ last'.attempts = attempts + (IF last'.kind = "fail" THEN 1
                                             ELSE 0)
             /\ GoesOn => attempts' = last'.attempts]_vars

\* A failure, a successful page and a failure again: the second failure is
\* counted on top of the first.
C26_Witness ==
    /\ InEngine
    /\ last.kind = "fail" /\ last.ticker = cc.tickers[ticker_i]
    /\ df0 /= <<>>
    /\ answers = "mixed"
    /\ attempts = 2

C27_FetchEnds ==
    /\ [](reqs <= (GiveUpAt - 1) + MaxBack)
    /\ [](InEngine => ticker_i \in DOMAIN cc.tickers)
    /\ [][Proceeds /\ position' /= position]_vars
    /\ <>(pc = "done" /\ outcome.kind \in {"returned", "raised"})

\* fetch_data is over after a symbol that saw failures between its pages
\* and a symbol that was given up.
C27_Witness ==
    /\ pc = "done"
    /\ Len(walk.ohlcv) = 2
    /\ walk.ohlcv[1].answers = "mixed"
    /\ walk.ohlcv[2].answers = "fail"
    /\ last.attempts = Min(cc.trials, GiveUpAt)


\* The symbols a walk finished, in the order it finished them.
WalkedTickers(kind) == [i \in DOMAIN walk[kind] |-> walk[kind][i].ticker]

\* C29: for a request whose fields are all in the catalog and whose
\* frequency is daily when it asks for an on-chain field, fetch_data issues
\* price page requests exactly when a requested field is among the first
\* five catalog fields and on-chain page requests exactly when one is among
\* the others, and each data kind it invokes walks every symbol of the
\* request, once each and in order.
C29_KindsAndSymbols ==
    (/\ pc = "done"
     /\ AllIn(cc.fields, fields_list)
     /\ AnyIn(cc.fields, onchain_list(fields_list)) =>
            cc.frequency = "histoday") =>
        /\ walk.ohlcv /= <<>> <=> AnyIn(cc.fields, ohlcv_list(fields_list))
        /\ walk.onchain /= <<>> <=> AnyIn(cc.fields, onchain_list(fields_list))
        /\ walk.ohlcv /= <<>> => WalkedTickers("ohlcv") = cc.tickers
        /\ walk.onchain /= <<>> => WalkedTickers("onchain") = cc.tickers


\* The tokens that end in 'min', those that end in 'h', and the others.
MinuteTokens == {"1min", "5min", "10min", "20min", "30min"}
HourTokens == {"1h", "2h", "4h", "8h"}
OtherTokens == {"d", "w", "m", "tick"}

\* C30: every frequency token the DataRequest accepts is translated: to the
\* minute keyword when it ends in 'min', to the hour keyword when it ends
\* in 'h', to the daily keyword otherwise (d, w, m, tick); and fetch_onchain
\* gets past its daily-frequency check exactly for those other tokens.
C30_FreqTranslated ==
    /\ [](/\ data_req.freq \in FreqTokens
          /\ FreqTokens = MinuteTokens \cup HourTokens \cup OtherTokens)
    /\ [](pc /= "start" =>
             cc.frequency = CASE data_req.freq \in MinuteTokens -> "histominute"
                              [] data_req.freq \in HourTokens -> "histohour"
                              [] data_req.freq \in OtherTokens -> "histoday")
    /\ [][pc = "onchain_start" =>
             (meta_calls' = meta_calls + 1 <=> data_req.freq \in OtherTokens)]_vars

\* An on-chain request of frequency 'tick' is past the daily check and at
\* its first page request.
C30_Witness ==
    /\ data_req.freq = "tick"
    /\ cc.frequency = "histoday"
    /\ pc = "onchain"


\* The data kind whose page requests the engine issues at pc.
KindAt(at) == IF at = "ohlcv" THEN "ohlcv" ELSE "onchain"

\* C31: requests are sequential.  A page request is for the symbol the loop
\* stands at, and the symbols before it in the request, and no others, have
\* ended their paging, in request order; from the call of fetch_onchain on,
\* the price walk is over (it went through every symbol, or an error ended
\* it, or no price field was asked for) and no price request follows; and
\* between two consecutive requests of the loop of a symbol there is one
\* sleep(pause).
C31_Sequential ==
    /\ [](InEngine =>
             /\ ticker_i \in DOMAIN cc.tickers
             /\ WalkedTickers(KindAt(pc)) = SubSeq(cc.tickers, 1, ticker_i - 1))
    /\ [](pc \in {"onchain_start", "onchain"} =>
             IF AnyIn(cc.fields, ohlcv_list(fields_list))
             THEN \/ WalkedTickers("ohlcv") = cc.tickers
                  \/ LastWalked("ohlcv").raised
             ELSE walk.ohlcv = <<>>)
    /\ [][/\ InEngine =>
                /\ last'.data = KindAt(pc)
                /\ last'.ticker = cc.tickers[ticker_i]
                /\ GoesOn => paused'
          /\ pc \in {"onchain_start", "onchain"} => pc' /= "ohlcv"
          /\ last.data = "onchain" => last'.data = "onchain"]_vars

\* A request for price and on-chain fields of two symbols: both price walks
\* are over, the first symbol's on-chain paging is over, and the second
\* symbol stands, after a pause, before its second on-chain request.
C31_Witness ==
    /\ pc = "onchain" /\ ticker_i = 2
    /\ cc.tickers[1] /= cc.tickers[2]
    /\ Len(walk.ohlcv) = 2 /\ Len(walk.onchain) = 1
    /\ last.data = "onchain" /\ last.ticker = cc.tickers[2]
    /\ reqs = 1 /\ paused

=============================================================================
